---- MODULE Spec2Model ----
(***************************************************************************)
(* The Verex pattern builder of src/src/verbal_expressions.rs.             *)
(*                                                                         *)
(* A string is a sequence of one-character strings, so that containment,   *)
(* slicing and concatenation are the operations the code performs on it.   *)
(* Every builder method consumes `self` and returns a Verex; it is an      *)
(* operator from a builder record to a builder record, and the action of   *)
(* the same name (capitalised) applies it to the builder of the chain.     *)
(***************************************************************************)
EXTENDS Integers, Sequences, FiniteSets

VARIABLES
  prefix,    \* Verex.prefix
  source,    \* Verex.source (the "body" of the specification)
  suffix,    \* Verex.suffix
  outcome,   \* "builder": the chain holds a Verex; "value": a terminal
             \* operation returned; "panic": the task failed
  compiled,  \* what Regex::new returned to the last terminal operation
  out,       \* the String returned by as_str
  trace,     \* the calls of the chain so far, each with its arguments
  limit      \* the number of calls this chain may make

vars == <<prefix, source, suffix, outcome, compiled, out, trace, limit>>

----------------------------------------------------------------------------
(* Bounds and input sets *)

MaxOps == 2          \* calls per chain when every operation is available
MaxChain == 5        \* calls per chain of grouping operations

Values == {<<"x">>, <<"(">>, <<"b", ")">>}
Modifiers == {<<"x">>, <<"i", "m">>}
Counts == {1, 12, -3}
CountLists == {<<>>, <<1>>, <<1, 2>>, <<12, -3, 7>>}
PairLists == {<<>>, <<<<<<"a">>, <<"z">>>>>>,
              <<<<<<"a">>, <<"z">>>>, <<<<"A">>, <<"Z">>>>>>}

----------------------------------------------------------------------------
(* String helpers of the standard library, as the code uses them *)

\* String::append / operator + on String
append(s, t) == s \o t

\* StrSlice::contains for a one-character needle
contains(s, c) == \E i \in 1..Len(s) : s[i] = c

\* StrSlice::slice(begin, end), byte offsets, end exclusive
slice(s, begin, end) == SubSeq(s, begin + 1, end)

Digit(d) == CASE d = 0 -> "0" [] d = 1 -> "1" [] d = 2 -> "2" [] d = 3 -> "3"
              [] d = 4 -> "4" [] d = 5 -> "5" [] d = 6 -> "6" [] d = 7 -> "7"
              [] d = 8 -> "8" [] d = 9 -> "9"

RECURSIVE Decimal(_)
Decimal(n) == IF n < 10 THEN <<Digit(n)>>
              ELSE Decimal(n \div 10) \o <<Digit(n % 10)>>

\* format!("{}", n) for n: int
FormatInt(n) == IF n < 0 THEN <<"-">> \o Decimal(0 - n) ELSE Decimal(n)

----------------------------------------------------------------------------
(* The builder *)

from(p, s, x) == [prefix |-> p, source |-> s, suffix |-> x]

new == from(<<>>, <<>>, <<>>)

\* start_of_line that writes the anchor to the body
start_of_line_in_body(self) == from(self.prefix, append(self.source, <<"^">>), self.suffix)

start_of_line(self) == from(append(self.prefix, <<"^">>), self.source, self.suffix)

\* end_of_line that writes the anchor to prefix
end_of_line_in_prefix(self) == from(append(self.prefix, <<"$">>), self.source, self.suffix)

end_of_line(self) == from(self.prefix, self.source, append(self.suffix, <<"$">>))

\* add that puts the value in front of the body
add_in_front(self, value) == from(self.prefix, append(value, self.source), self.suffix)

add(self, value) == from(self.prefix, append(self.source, value), self.suffix)

find(self, value) == add(self, <<"(", "?", ":">> \o value \o <<")">>)

then(self, value) == find(self, value)

maybe(self, value) == add(self, <<"(", "?", ":">> \o value \o <<")", "?">>)

anything(self) == add(self, <<"(", "?", ":", ".", "*", ")">>)

anything_but_not(self, value) ==
  add(self, <<"(", "?", ":", "[", "^">> \o value \o <<"]", "*", ")">>)

something(self) == add(self, <<"(", "?", ":", ".", "+", ")">>)

something_but_not(self, value) ==
  add(self, <<"(", "?", ":", "[", "^">> \o value \o <<"]", "+", ")">>)

line_break(self) ==
  add(self, <<"(", "?", ":", "(", "?", ":", "\\", "n", ")", "|",
              "(", "?", ":", "\\", "r", "\\", "n", ")", ")">>)

br(self) == line_break(self)

tab(self) == add(self, <<"(", "?", ":", "\\", "t", ")">>)

word(self) == add(self, <<"(", "?", ":", "\\", "w", "+", ")">>)

non_word(self) == add(self, <<"(", "?", ":", "\\", "W", "+", ")">>)

digit(self) == add(self, <<"(", "?", ":", "\\", "d", ")">>)

non_digit(self) == add(self, <<"(", "?", ":", "\\", "D", ")">>)

space(self) == add(self, <<"(", "?", ":", "\\", "s", ")">>)

non_space(self) == add(self, <<"(", "?", ":", "\\", "S", ")">>)

any_of(self, value) == add(self, <<"[">> \o value \o <<"]">>)

any(self, value) == any_of(self, value)

\* pairs.iter().fold("", |buf, &(from, to)| buf + format!("{}-{}", from, to))
RECURSIVE ranges(_)
ranges(pairs) ==
  IF pairs = <<>> THEN <<>>
  ELSE ranges(SubSeq(pairs, 1, Len(pairs) - 1))
         \o (pairs[Len(pairs)][1] \o <<"-">> \o pairs[Len(pairs)][2])

range(self, pairs) == add(self, <<"[">> \o ranges(pairs) \o <<"]">>)

add_modifier(self, modifier) == add(self, <<"(", "?">> \o modifier \o <<")">>)

remove_modifier(self, modifier) == add(self, <<"(", "?", "-">> \o modifier \o <<")">>)

with_any_case(self) == add_modifier(self, <<"i">>)

with_specific_case(self) == remove_modifier(self, <<"i">>)

search_multiline(self) == add_modifier(self, <<"m">>)

search_oneline(self) == remove_modifier(self, <<"m">>)

one_or_more(self) == add(self, <<"+">>)

zero_or_more(self) == add(self, <<"*">>)

count(self, n) == add(self, <<"{">> \o FormatInt(n) \o <<"}">>)

count_range(self, a, b) ==
  add(self, <<"{">> \o FormatInt(a) \o <<",">> \o FormatInt(b) \o <<"}">>)

\* at_least without the comma
at_least_exact(self, n) == add(self, <<"{">> \o FormatInt(n) \o <<"}">>)

at_least(self, n) == add(self, <<"{">> \o FormatInt(n) \o <<",", "}">>)

\* multiple that treats every non-empty counts as one count
multiple_single(self, value, counts) ==
  CASE Len(counts) = 0 -> one_or_more(then(self, value))
    [] OTHER -> count(then(self, value), counts[1])

multiple(self, value, counts) ==
  CASE Len(counts) = 0 -> one_or_more(then(self, value))
    [] Len(counts) = 1 -> count(then(self, value), counts[1])
    [] OTHER -> count_range(then(self, value), counts[1], counts[2])

\* or without the two containment tests
or_always_wraps(self, value) ==
  then(add(from(append(self.prefix, <<"(">>), self.source, append(self.suffix, <<")">>)),
           <<")", "|", "(">>),
       value)

\* or that decides both parentheses by the test on prefix
or_one_test(self, value) ==
  LET p == IF contains(self.prefix, "(") THEN <<>> ELSE <<"(">>
      s == IF contains(self.prefix, "(") THEN <<>> ELSE <<")">>
  IN  then(add(from(append(self.prefix, p), self.source, append(self.suffix, s)),
               <<")", "|", "(">>),
           value)

or(self, value) ==
  LET p == IF contains(self.prefix, "(") THEN <<>> ELSE <<"(">>
      s == IF contains(self.suffix, ")") THEN <<>> ELSE <<")">>
  IN  then(add(from(append(self.prefix, p), self.source, append(self.suffix, s)),
               <<")", "|", "(">>),
           value)

\* begin_capture that sets suffix to ")" instead of appending to it
begin_capture_resets(self) ==
  add(from(self.prefix, self.source, <<")">>), <<"(">>)

\* begin_capture that reserves its ")" at the front of suffix
begin_capture_in_front(self) ==
  add(from(self.prefix, self.source, append(<<")">>, self.suffix)), <<"(">>)

begin_capture(self) ==
  add(from(self.prefix, self.source, append(self.suffix, <<")">>)), <<"(">>)

\* self.suffix.len() - 1 is computed on an unsigned length: on the empty suffix
\* the slice is out of range and the call fails (EndCapture below)
end_capture(self) ==
  LET x == slice(self.suffix, 0, Len(self.suffix) - 1)
  IN  add(from(self.prefix, self.source, x), <<")">>)

\* as_str with the last two segments exchanged
as_str_swapped(self) == self.prefix \o self.suffix \o self.source

as_str(self) == self.prefix \o self.source \o self.suffix

----------------------------------------------------------------------------
(* The regex engine, as far as the builder depends on it *)

RECURSIVE Scan(_, _, _)
\* nesting depth after s[i..], or -1 once a ')' closes nothing
Scan(s, i, d) ==
  IF d < 0 THEN -1
  ELSE IF i > Len(s) THEN d
  ELSE Scan(s, i + 1, IF s[i] = "(" THEN d + 1 ELSE IF s[i] = ")" THEN d - 1 ELSE d)

Balanced(s) == Scan(s, 1, 0) = 0

\* Regex::new: a pattern whose parentheses do not balance is rejected (none of
\* them can be a literal when the pattern has no character class; the
\* templates never escape one).  Any other pattern may be accepted or
\* rejected for reasons this model does not decide.
RegexNew(pattern) ==
  IF ~Balanced(pattern) /\ ~contains(pattern, "[") THEN {"Err"} ELSE {"Ok", "Err"}

\* unwrap that yields a value from an Err as well
unwrap_lenient(r) == "value"

\* Result::unwrap
unwrap(r) == IF r = "Ok" THEN "value" ELSE "panic"

----------------------------------------------------------------------------
(* The chain *)

cur == from(prefix, source, suffix)

\* one call of the chain: the method, its &str argument, its int arguments
\* and its pairs (empty where the method has none)
Entry(name, value, counts, pairs) ==
  [op |-> name, value |-> value, counts |-> counts, pairs |-> pairs]

CallWith(name, value, counts, pairs, next) ==
  /\ outcome = "builder"
  /\ Len(trace) < limit
  /\ prefix' = next.prefix
  /\ source' = next.source
  /\ suffix' = next.suffix
  /\ trace' = Append(trace, Entry(name, value, counts, pairs))
  /\ UNCHANGED <<outcome, compiled, out, limit>>

Call(name, next) == CallWith(name, <<>>, <<>>, <<>>, next)

CallValue(name, value, next) == CallWith(name, value, <<>>, <<>>, next)

StartOfLine == Call("start_of_line", start_of_line(cur))
EndOfLine == Call("end_of_line", end_of_line(cur))
Find == \E v \in Values : CallValue("find", v, find(cur, v))
Then == \E v \in Values : CallValue("then", v, then(cur, v))
Maybe == \E v \in Values : CallValue("maybe", v, maybe(cur, v))
Anything == Call("anything", anything(cur))
AnythingButNot == \E v \in Values : CallValue("anything_but_not", v, anything_but_not(cur, v))
Something == Call("something", something(cur))
SomethingButNot == \E v \in Values : CallValue("something_but_not", v, something_but_not(cur, v))
LineBreak == Call("line_break", line_break(cur))
Br == Call("br", br(cur))
Tab == Call("tab", tab(cur))
Word == Call("word", word(cur))
NonWord == Call("non_word", non_word(cur))
DigitOp == Call("digit", digit(cur))
NonDigit == Call("non_digit", non_digit(cur))
Space == Call("space", space(cur))
NonSpace == Call("non_space", non_space(cur))
AnyOf == \E v \in Values : CallValue("any_of", v, any_of(cur, v))
Any == \E v \in Values : CallValue("any", v, any(cur, v))
Range == \E ps \in PairLists : CallWith("range", <<>>, <<>>, ps, range(cur, ps))
AddModifier == \E m \in Modifiers : CallValue("add_modifier", m, add_modifier(cur, m))
RemoveModifier == \E m \in Modifiers : CallValue("remove_modifier", m, remove_modifier(cur, m))
WithAnyCase == Call("with_any_case", with_any_case(cur))
WithSpecificCase == Call("with_specific_case", with_specific_case(cur))
SearchMultiline == Call("search_multiline", search_multiline(cur))
SearchOneline == Call("search_oneline", search_oneline(cur))
Multiple ==
  \E v \in Values, cs \in CountLists :
    CallWith("multiple", v, cs, <<>>, multiple(cur, v, cs))
OneOrMore == Call("one_or_more", one_or_more(cur))
ZeroOrMore == Call("zero_or_more", zero_or_more(cur))
Count == \E n \in Counts : CallWith("count", <<>>, <<n>>, <<>>, count(cur, n))
CountRange ==
  \E a \in Counts, b \in Counts :
    CallWith("count_range", <<>>, <<a, b>>, <<>>, count_range(cur, a, b))
AtLeast == \E n \in Counts : CallWith("at_least", <<>>, <<n>>, <<>>, at_least(cur, n))
Or == \E v \in Values : CallValue("or", v, or(cur, v))
BeginCapture == Call("begin_capture", begin_capture(cur))

\* end_capture with a saturating len() - 1: the empty suffix stays empty
EndCapture_saturating ==
  Call("end_capture",
       add(from(prefix, source, SubSeq(suffix, 1, Len(suffix) - 1)), <<")">>))

EndCapture ==
  \/ /\ Len(suffix) > 0
     /\ Call("end_capture", end_capture(cur))
  \/ /\ Len(suffix) = 0
     /\ outcome = "builder"
     /\ Len(trace) < limit
     /\ outcome' = "panic"
     /\ trace' = Append(trace, Entry("end_capture", <<>>, <<>>, <<>>))
     /\ UNCHANGED <<prefix, source, suffix, compiled, out, limit>>

\* a terminal operation consumes the builder
Terminal(name, r, res, str) ==
  /\ outcome = "builder"
  /\ Len(trace) < limit
  /\ compiled' = r
  /\ outcome' = res
  /\ out' = str
  /\ trace' = Append(trace, Entry(name, <<>>, <<>>, <<>>))
  /\ UNCHANGED <<prefix, source, suffix, limit>>

AsStr == Terminal("as_str", "none", "value", as_str(cur))

\* as_regex is Regex::new(self.as_str().as_slice()).unwrap(); the other four
\* call as_regex and hand the text to the compiled pattern
AsRegex == \E r \in RegexNew(as_str(cur)) : Terminal("as_regex", r, unwrap(r), <<>>)
IsMatch == \E r \in RegexNew(as_str(cur)) : Terminal("is_match", r, unwrap(r), <<>>)
Captures == \E r \in RegexNew(as_str(cur)) : Terminal("captures", r, unwrap(r), <<>>)
Split == \E r \in RegexNew(as_str(cur)) : Terminal("split", r, unwrap(r), <<>>)
Replace == \E r \in RegexNew(as_str(cur)) : Terminal("replace", r, unwrap(r), <<>>)

Start(n) ==
  /\ prefix = new.prefix
  /\ source = new.source
  /\ suffix = new.suffix
  /\ outcome = "builder"
  /\ compiled = "none"
  /\ out = <<>>
  /\ trace = <<>>
  /\ limit = n

Init == Start(MaxOps)

Next ==
  \/ StartOfLine \/ EndOfLine
  \/ Find \/ Then \/ Maybe \/ Anything \/ AnythingButNot
  \/ Something \/ SomethingButNot \/ LineBreak \/ Br \/ Tab
  \/ Word \/ NonWord \/ DigitOp \/ NonDigit \/ Space \/ NonSpace
  \/ AnyOf \/ Any \/ Range \/ AddModifier \/ RemoveModifier
  \/ WithAnyCase \/ WithSpecificCase \/ SearchMultiline \/ SearchOneline
  \/ Multiple \/ OneOrMore \/ ZeroOrMore \/ Count \/ CountRange \/ AtLeast
  \/ Or \/ BeginCapture \/ EndCapture
  \/ AsStr \/ AsRegex \/ IsMatch \/ Captures \/ Split \/ Replace

Spec == Init /\ [][Next]_vars

\* Chains of the grouping operations with the literal match and a quantifier
InitChain == Start(MaxChain)

NextChain ==
  \/ StartOfLine \/ EndOfLine \/ Then \/ OneOrMore
  \/ Or \/ BeginCapture \/ EndCapture

SpecChain == InitChain /\ [][NextChain]_vars

----------------------------------------------------------------------------
(* What the properties below say about a chain *)

lastOp == IF trace = <<>> THEN "new" ELSE trace[Len(trace)].op

lastCall == trace[Len(trace)]

\* the step is a call of the method `name` that returned a builder
Calls(name) ==
  /\ Len(trace') = Len(trace) + 1
  /\ trace'[Len(trace')].op = name
  /\ outcome' = "builder"

Occurrences(s, c) == Cardinality({i \in 1..Len(s) : s[i] = c})

NumOp(t, name) == Cardinality({i \in 1..Len(t) : t[i].op = name})

ParenFree(s) == ~contains(s, "(") /\ ~contains(s, ")")

\* no caller-supplied string of the chain holds a parenthesis
Plain(t) ==
  \A i \in 1..Len(t) :
    /\ ParenFree(t[i].value)
    /\ \A j \in 1..Len(t[i].pairs) :
         ParenFree(t[i].pairs[j][1]) /\ ParenFree(t[i].pairs[j][2])

RECURSIVE Pending(_)
\* begin_capture calls not yet closed by an end_capture
Pending(t) ==
  IF t = <<>> THEN 0
  ELSE LET d == Pending(SubSeq(t, 1, Len(t) - 1))
           o == t[Len(t)].op
       IN  IF o = "begin_capture" THEN d + 1
           ELSE IF o = "end_capture" /\ d > 0 THEN d - 1
           ELSE d

\* every end_capture was called while a begin_capture was pending
Matched(t) ==
  \A i \in 1..Len(t) :
    t[i].op = "end_capture" => Pending(SubSeq(t, 1, i - 1)) > 0

AnchorOps == {"start_of_line", "end_of_line"}

FragmentOps ==
  {"find", "then", "maybe", "anything", "anything_but_not", "something",
   "something_but_not", "line_break", "br", "tab", "word", "non_word",
   "digit", "non_digit", "space", "non_space", "any_of", "any", "range",
   "add_modifier", "remove_modifier", "with_any_case", "with_specific_case",
   "search_multiline", "search_oneline"}

QuantifierOps ==
  {"one_or_more", "zero_or_more", "count", "count_range", "at_least", "multiple"}

AppendOps == FragmentOps \cup QuantifierOps

CaptureOps == {"begin_capture", "end_capture"}

OnlyOps(t, ops) == \A i \in 1..Len(t) : t[i].op \in ops

----------------------------------------------------------------------------
(* C1 *)

\* C1: after any chain of builder calls from new() whose values hold no
\* parenthesis and whose end_capture calls are all matched, the rendered
\* string prefix + source + suffix has balanced parentheses.
C1_ParenBalance ==
  (outcome = "builder" /\ Plain(trace) /\ Matched(trace))
    => Balanced(as_str(cur))

----------------------------------------------------------------------------
(* C2 *)

\* the group the claim expects to the right of the bar
ValueGroup(v) == <<"(", "(", "?", ":">> \o v \o <<")", ")">>

\* C2: when or(v) is called on a builder made by anchors and body appends,
\* the render ends with ")|" followed by exactly "((?:" v "))", and every
\* character the builder rendered before the call is to the left of that.
C2_OrGroupsEverythingSoFar ==
  [][(Calls("or") /\ OnlyOps(trace, AnchorOps \cup AppendOps))
       => LET v == trace'[Len(trace')].value
              before == as_str(cur)
              after == as_str(cur')
              right == <<")", "|">> \o ValueGroup(v)
              n == Len(after) - Len(right)
              left == SubSeq(after, 1, n)
          IN  /\ n >= 0
              /\ SubSeq(after, n + 1, Len(after)) = right
              /\ \A i \in 1..Len(before) :
                   Occurrences(left, before[i]) >= Occurrences(before, before[i])]_vars

----------------------------------------------------------------------------
(* C3 *)

\* C3: in a chain without capture calls and with paren-free values, once or
\* has been called (any number of times, interleaved with appends,
\* quantifiers and anchors) prefix holds exactly one "(", suffix exactly one
\* ")", and the rendered string has balanced parentheses.
C3_RepeatedOrStaysBalanced ==
  (/\ outcome = "builder"
   /\ Plain(trace)
   /\ OnlyOps(trace, AnchorOps \cup AppendOps \cup {"or"})
   /\ NumOp(trace, "or") >= 1)
    => /\ Occurrences(prefix, "(") = 1
       /\ Occurrences(suffix, ")") = 1
       /\ Balanced(as_str(cur))

\* three or calls with both anchors and an append between them
C3_Witness ==
  /\ outcome = "builder"
  /\ Plain(trace)
  /\ OnlyOps(trace, AnchorOps \cup AppendOps \cup {"or"})
  /\ NumOp(trace, "or") >= 2
  /\ NumOp(trace, "start_of_line") >= 1
  /\ NumOp(trace, "end_of_line") >= 1
  /\ NumOp(trace, "then") >= 1
  /\ lastOp = "or"

----------------------------------------------------------------------------
(* C4 *)

\* C4: a matched end_capture removes from suffix the ")" reserved by its
\* begin_capture: the character removed is a ")", every "$" of suffix is
\* still there afterwards, and body gains exactly ")".
C4_EndCaptureUndoesItsReservation ==
  [][(Calls("end_capture") /\ Matched(trace'))
       => /\ suffix[Len(suffix)] = ")"
          /\ Occurrences(suffix', ")") = Occurrences(suffix, ")") - 1
          /\ Occurrences(suffix', "$") = Occurrences(suffix, "$")
          /\ Len(suffix') = Len(suffix) - 1
          /\ source' = source \o <<")">>
          /\ prefix' = prefix]_vars

----------------------------------------------------------------------------
(* C5 *)

IsPrefix(s, t) == Len(s) <= Len(t) /\ SubSeq(t, 1, Len(s)) = s

\* C5: every fragment or quantifier call leaves prefix and suffix as they
\* were, and the body before the call is a prefix of the body after it.
C5_AppendFrame ==
  [][(\E name \in AppendOps : Calls(name))
       => /\ prefix' = prefix
          /\ suffix' = suffix
          /\ IsPrefix(source, source')
          /\ Len(source') > Len(source)]_vars

\* an append made on a builder whose three segments are all non-empty
C5_Witness ==
  /\ outcome = "builder"
  /\ lastOp \in AppendOps
  /\ prefix # <<>>
  /\ suffix # <<>>
  /\ Len(trace) >= 2

----------------------------------------------------------------------------
(* C6 *)

\* the decimal numerals of the counts the chains use
Numeral(n) ==
  CASE n = 1 -> <<"1">>
    [] n = 2 -> <<"2">>
    [] n = 7 -> <<"7">>
    [] n = 12 -> <<"1", "2">>
    [] n = -3 -> <<"-", "3">>

RECURSIVE RangeText(_)
\* from "-" to, pair after pair
RangeText(pairs) ==
  IF pairs = <<>> THEN <<>>
  ELSE pairs[1][1] \o <<"-">> \o pairs[1][2] \o RangeText(Tail(pairs))

\* the catalogue: what one call is expected to add to the body
Template(e) ==
  LET v == e.value
      n == e.counts
  IN  CASE e.op \in {"find", "then"} -> <<"(", "?", ":">> \o v \o <<")">>
        [] e.op = "maybe" -> <<"(", "?", ":">> \o v \o <<")", "?">>
        [] e.op = "anything" -> <<"(", "?", ":", ".", "*", ")">>
        [] e.op = "anything_but_not" -> <<"(", "?", ":", "[", "^">> \o v \o <<"]", "*", ")">>
        [] e.op = "something" -> <<"(", "?", ":", ".", "+", ")">>
        [] e.op = "something_but_not" -> <<"(", "?", ":", "[", "^">> \o v \o <<"]", "+", ")">>
        [] e.op \in {"line_break", "br"} ->
             <<"(", "?", ":">> \o <<"(", "?", ":", "\\", "n", ")">> \o <<"|">>
               \o <<"(", "?", ":", "\\", "r", "\\", "n", ")">> \o <<")">>
        [] e.op = "tab" -> <<"(", "?", ":", "\\", "t", ")">>
        [] e.op = "word" -> <<"(", "?", ":", "\\", "w", "+", ")">>
        [] e.op = "non_word" -> <<"(", "?", ":", "\\", "W", "+", ")">>
        [] e.op = "digit" -> <<"(", "?", ":", "\\", "d", ")">>
        [] e.op = "non_digit" -> <<"(", "?", ":", "\\", "D", ")">>
        [] e.op = "space" -> <<"(", "?", ":", "\\", "s", ")">>
        [] e.op = "non_space" -> <<"(", "?", ":", "\\", "S", ")">>
        [] e.op \in {"any_of", "any"} -> <<"[">> \o v \o <<"]">>
        [] e.op = "range" -> <<"[">> \o RangeText(e.pairs) \o <<"]">>
        [] e.op = "add_modifier" -> <<"(", "?">> \o v \o <<")">>
        [] e.op = "remove_modifier" -> <<"(", "?", "-">> \o v \o <<")">>
        [] e.op = "with_any_case" -> <<"(", "?", "i", ")">>
        [] e.op = "with_specific_case" -> <<"(", "?", "-", "i", ")">>
        [] e.op = "search_multiline" -> <<"(", "?", "m", ")">>
        [] e.op = "search_oneline" -> <<"(", "?", "-", "m", ")">>
        [] e.op = "one_or_more" -> <<"+">>
        [] e.op = "zero_or_more" -> <<"*">>
        [] e.op = "count" -> <<"{">> \o Numeral(n[1]) \o <<"}">>
        [] e.op = "count_range" ->
             <<"{">> \o Numeral(n[1]) \o <<",">> \o Numeral(n[2]) \o <<"}">>
        [] e.op = "at_least" -> <<"{">> \o Numeral(n[1]) \o <<",", "}">>
        [] e.op = "multiple" ->
             <<"(", "?", ":">> \o v \o <<")">>
               \o (IF Len(n) = 0 THEN <<"+">>
                   ELSE IF Len(n) = 1 THEN <<"{">> \o Numeral(n[1]) \o <<"}">>
                   ELSE <<"{">> \o Numeral(n[1]) \o <<",">> \o Numeral(n[2]) \o <<"}">>)

\* the operations the catalogue of C6 lists
CatalogueOps == AppendOps \ {"multiple"}

\* C6: each fragment call extends the body by exactly its template with the
\* value embedded verbatim, and each quantifier call by exactly its token
\* with the counts in decimal.
C6_FragmentCatalogue ==
  [][(\E name \in CatalogueOps : Calls(name))
       => source' = source \o Template(trace'[Len(trace')])]_vars

\* a two-digit count, a negative count, a two-pair range and a value that
\* holds a parenthesis have each been appended to a non-empty body
C6_Witness ==
  /\ outcome = "builder"
  /\ Len(trace) = 2
  /\ trace[1].op = "something_but_not" /\ trace[1].value = <<"b", ")">>
  /\ trace[2].op = "count_range" /\ trace[2].counts = <<12, -3>>
  /\ source = <<"(", "?", ":", "[", "^", "b", ")", "]", "+", ")",
                "{", "1", "2", ",", "-", "3", "}">>

----------------------------------------------------------------------------
(* C7 *)

RECURSIVE Repeat(_, _)
Repeat(c, n) == IF n = 0 THEN <<>> ELSE <<c>> \o Repeat(c, n - 1)

RECURSIVE BodyOf(_)
\* the templates of the appends of a chain, in call order
BodyOf(t) ==
  IF t = <<>> THEN <<>>
  ELSE (IF t[1].op \in AppendOps THEN Template(t[1]) ELSE <<>>) \o BodyOf(Tail(t))

\* C7: start_of_line appends "^" to prefix and nothing else changes;
\* end_of_line appends "$" to suffix and nothing else changes; alone on the
\* empty builder they render "^" and "$"; and in a chain of anchors and
\* appends the render is the "^"s, the appends in order, the "$"s, wherever
\* the anchor calls were placed.
C7_Anchors ==
  /\ [][Calls("start_of_line")
          => prefix' = prefix \o <<"^">> /\ source' = source /\ suffix' = suffix]_vars
  /\ [][Calls("end_of_line")
          => suffix' = suffix \o <<"$">> /\ source' = source /\ prefix' = prefix]_vars
  /\ []((Len(trace) = 1 /\ lastOp = "start_of_line") => as_str(cur) = <<"^">>)
  /\ []((Len(trace) = 1 /\ lastOp = "end_of_line") => as_str(cur) = <<"$">>)
  /\ []((outcome = "builder" /\ OnlyOps(trace, AnchorOps \cup AppendOps))
          => as_str(cur) = Repeat("^", NumOp(trace, "start_of_line"))
                             \o BodyOf(trace)
                             \o Repeat("$", NumOp(trace, "end_of_line")))

\* an anchor called after an append
C7_Witness ==
  /\ outcome = "builder"
  /\ Len(trace) = 2
  /\ trace[1].op \in AppendOps
  /\ lastOp \in AnchorOps

----------------------------------------------------------------------------
(* C8 *)

\* C8: as_str returns prefix, then source, then suffix, and nothing else;
\* on new() it returns the empty string.
C8_RenderIsConcatenation ==
  lastOp = "as_str"
    => /\ outcome = "value"
       /\ Len(out) = Len(prefix) + Len(source) + Len(suffix)
       /\ SubSeq(out, 1, Len(prefix)) = prefix
       /\ SubSeq(out, Len(prefix) + 1, Len(prefix) + Len(source)) = source
       /\ SubSeq(out, Len(prefix) + Len(source) + 1, Len(out)) = suffix
       /\ (Len(trace) = 1 => out = <<>>)

\* a render of a builder whose three segments differ and are non-empty
C8_Witness ==
  /\ lastOp = "as_str"
  /\ prefix # <<>> /\ source # <<>> /\ suffix # <<>>
  /\ prefix # suffix
  /\ out # <<>>

----------------------------------------------------------------------------
(* C9 *)

\* C9: multiple(v, counts) gives the state of then(v).one_or_more() for no
\* count, then(v).count(counts[0]) for one, then(v).count_range(counts[0],
\* counts[1]) for two; on the empty builder with v = "x" the renders are
\* "(?:x)+", "(?:x){1}" and "(?:x){1,2}".
C9_MultipleDispatch ==
  /\ [][(Calls("multiple") /\ Len(trace'[Len(trace')].counts) <= 2)
          => LET v == trace'[Len(trace')].value
                 cs == trace'[Len(trace')].counts
             IN  cur' = CASE Len(cs) = 0 -> one_or_more(then(cur, v))
                          [] Len(cs) = 1 -> count(then(cur, v), cs[1])
                          [] Len(cs) = 2 -> count_range(then(cur, v), cs[1], cs[2])]_vars
  /\ [](trace = <<Entry("multiple", <<"x">>, <<>>, <<>>)>>
          => as_str(cur) = <<"(", "?", ":", "x", ")", "+">>)
  /\ [](trace = <<Entry("multiple", <<"x">>, <<1>>, <<>>)>>
          => as_str(cur) = <<"(", "?", ":", "x", ")", "{", "1", "}">>)
  /\ [](trace = <<Entry("multiple", <<"x">>, <<1, 2>>, <<>>)>>
          => as_str(cur) = <<"(", "?", ":", "x", ")", "{", "1", ",", "2", "}">>)

\* multiple with two counts, called on a builder that is not empty
C9_Witness ==
  /\ outcome = "builder"
  /\ Len(trace) = 2
  /\ lastOp = "multiple"
  /\ Len(lastCall.counts) = 2
  /\ prefix # <<>>

----------------------------------------------------------------------------
(* C10 *)

RegexOps == {"as_regex", "is_match", "captures", "split", "replace"}

\* C10: a terminal operation whose pattern the engine rejects returns an
\* error value to the caller; it does not abort and returns no ordinary
\* result.
C10_CompileErrorIsReturned ==
  (lastOp \in RegexOps /\ compiled = "Err") => outcome = "error"

\* C10, amended: a terminal operation whose pattern the engine rejects
\* panics on the unwrap of the engine's Err; it returns nothing, neither an
\* error value nor an ordinary result.  One whose pattern is accepted returns.
C10_CompileErrorPanics ==
  lastOp \in RegexOps
    => /\ compiled \in {"Ok", "Err"}
       /\ compiled = "Err" => outcome = "panic"
       /\ compiled = "Ok" => outcome = "value"
       /\ ~Balanced(as_str(cur)) /\ ~contains(as_str(cur), "[") => outcome = "panic"

\* a terminal operation on a pattern with an unclosed group
C10_Witness ==
  /\ lastOp \in RegexOps
  /\ Len(trace) = 2
  /\ ~Balanced(as_str(cur))
  /\ ~contains(as_str(cur), "[")
  /\ compiled = "Err"
  /\ outcome = "panic"

----------------------------------------------------------------------------
(* C11 *)

\* C11: or(v) on (prefix p, body s, suffix x) yields prefix p + "(" when p
\* holds no "(" and p otherwise, suffix x + ")" when x holds no ")" and x
\* otherwise, and body s + ")|(" + "(?:" + v + ")"; each test looks at its own
\* segment as it was before the call.
C11_OrStep ==
  [][Calls("or")
       => LET v == trace'[Len(trace')].value
          IN  /\ prefix' = IF Occurrences(prefix, "(") = 0
                           THEN prefix \o <<"(">> ELSE prefix
              /\ suffix' = IF Occurrences(suffix, ")") = 0
                           THEN suffix \o <<")">> ELSE suffix
              /\ source' = source \o <<")", "|", "(">>
                                  \o <<"(", "?", ":">> \o v \o <<")">>]_vars

\* an or called with "(" already in prefix and no ")" left in suffix: the
\* two tests come out differently
C11_Witness ==
  /\ outcome = "builder"
  /\ Len(trace) = 3
  /\ trace[1].op = "or"
  /\ trace[2].op = "end_capture"
  /\ trace[3].op = "or"
  /\ prefix = <<"(">>
  /\ suffix = <<")">>

----------------------------------------------------------------------------
(* C12 *)

\* the calls made after the first k of the chain
After(t, k) == SubSeq(t, k + 1, Len(t))

\* since call k the chain has made only capture, fragment and quantifier
\* calls, and no end_capture without a begin_capture pending since then
CaptureRun(t, k) ==
  /\ OnlyOps(After(t, k), CaptureOps \cup AppendOps)
  /\ Matched(After(t, k))

\* s without its last d characters
Below(s, d) == SubSeq(s, 1, Len(s) - d)

\* C12: from any builder with suffix x0, through capture and append calls
\* with every end_capture matched, suffix is x0 followed by d ")" where d is
\* the number of begin_capture calls minus the number of end_capture calls:
\* the last d characters are ")" and what lies below them never changes (it
\* is x0, the suffix when d was 0).  begin_capture adds "(" and end_capture
\* ")" to the body, so at d = 0 from new() the body is balanced and suffix
\* is empty again.
C12_CaptureStack ==
  /\ [](outcome = "builder"
          => \A k \in 0..Len(trace) :
               CaptureRun(trace, k)
                 => LET d == Pending(After(trace, k))
                    IN  /\ Len(suffix) >= d
                        /\ SubSeq(suffix, Len(suffix) - d + 1, Len(suffix)) = Repeat(")", d))
  /\ [][(Len(trace') = Len(trace) + 1 /\ outcome' = "builder")
          => \A k \in 0..Len(trace) :
               CaptureRun(trace', k)
                 => Below(suffix', Pending(After(trace', k)))
                      = Below(suffix, Pending(After(trace, k)))]_vars
  /\ [][Calls("begin_capture") => source' = source \o <<"(">>]_vars
  /\ [][(Calls("end_capture") /\ Matched(trace')) => source' = source \o <<")">>]_vars
  /\ []((outcome = "builder" /\ CaptureRun(trace, 0) /\ Plain(trace)
           /\ Pending(trace) = 0)
          => suffix = <<>> /\ Balanced(source))

\* two nested captures opened and closed again over a suffix that held "$"
C12_Witness ==
  /\ outcome = "builder"
  /\ Len(trace) = 5
  /\ trace[1].op = "end_of_line"
  /\ CaptureRun(trace, 1)
  /\ NumOp(trace, "begin_capture") = 2
  /\ trace[3].op = "begin_capture"
  /\ Pending(After(trace, 1)) = 0
  /\ suffix = <<"$">>

----------------------------------------------------------------------------
(* C13 *)

\* C13: in every chain whose end_capture calls are all matched, once
\* start_of_line has been called prefix holds a "^" in every later state,
\* and once end_of_line has been called suffix holds a "$" in every later
\* state, wherever or, begin_capture and end_capture are called.
C13_AnchorsPersist ==
  (outcome = "builder" /\ Matched(trace))
    => /\ NumOp(trace, "start_of_line") >= 1 => Occurrences(prefix, "^") >= 1
       /\ NumOp(trace, "end_of_line") >= 1 => Occurrences(suffix, "$") >= 1

----------------------------------------------------------------------------
(* C14 *)

\* C14: end_capture on a builder whose suffix is empty fails: the call
\* returns no builder and the chain has no further state.  On a non-empty
\* suffix it succeeds, drops exactly the last character of suffix whatever
\* it is, and appends ")" to the body.
C14_EndCaptureOnEmptySuffix ==
  /\ [][(Len(trace') = Len(trace) + 1 /\ trace'[Len(trace')].op = "end_capture")
          => IF suffix = <<>>
             THEN outcome' = "panic"
             ELSE /\ outcome' = "builder"
                  /\ Len(suffix') = Len(suffix) - 1
                  /\ \A i \in 1..Len(suffix') : suffix'[i] = suffix[i]
                  /\ source' = source \o <<")">>
                  /\ prefix' = prefix]_vars
  /\ [][outcome # "panic"]_vars

\* the second end_capture after one begin_capture, on the emptied suffix
C14_Witness ==
  /\ outcome = "panic"
  /\ lastOp = "end_capture"
  /\ NumOp(trace, "begin_capture") = 1
  /\ NumOp(trace, "end_capture") = 2
  /\ suffix = <<>>

----------------------------------------------------------------------------
(* C15 *)

\* C15: whatever the calls and their values, prefix is made of "^" and "("
\* only and holds at most one "(", and suffix is made of ")" and "$" only;
\* values reach the body alone.
C15_SegmentAlphabet ==
  /\ \A i \in 1..Len(prefix) : prefix[i] \in {"^", "("}
  /\ Occurrences(prefix, "(") <= 1
  /\ \A i \in 1..Len(suffix) : suffix[i] \in {")", "$"}

\* an or whose value holds a parenthesis, after an end anchor
C15_Witness ==
  /\ outcome = "builder"
  /\ lastOp = "or"
  /\ ~ParenFree(lastCall.value)
  /\ Occurrences(prefix, "(") = 1
  /\ Occurrences(suffix, "$") = 1
  /\ Occurrences(suffix, ")") = 1
  /\ \E i \in 1..Len(source) : source[i] \notin {"^", "(", ")", "$"}

----------------------------------------------------------------------------
(* C16 *)

\* C16: every builder call leaves the old prefix a prefix of the new prefix
\* and the old body a prefix of the new body; every call but end_capture
\* leaves the old suffix a prefix of the new suffix; end_capture alone
\* shortens a segment, suffix, by exactly one character.
C16_AppendOnly ==
  [][(Len(trace') = Len(trace) + 1 /\ outcome' = "builder")
       => /\ IsPrefix(prefix, prefix')
          /\ IsPrefix(source, source')
          /\ IF trace'[Len(trace')].op = "end_capture"
             THEN Len(suffix') = Len(suffix) - 1 /\ IsPrefix(suffix', suffix)
             ELSE IsPrefix(suffix, suffix')]_vars

\* an end_capture that returned a builder
C16_Witness ==
  /\ outcome = "builder"
  /\ lastOp = "end_capture"
  /\ Len(trace) = 2
  /\ source # <<")">>

====
